---- MODULE Spec2Model ----
(***************************************************************************)
(* Model of the OTT analytics dashboard script ott_app_main.py.            *)
(*                                                                         *)
(* The script is a Streamlit page: it is executed top to bottom once when   *)
(* the page is opened and once more after every widget interaction.  The    *)
(* state is the cached dataset, the widget values of the session and the    *)
(* tables the latest execution of the script computed.  Every action is one *)
(* widget interaction followed by the complete re-execution of the script.  *)
(*                                                                         *)
(* Encoding of pandas values:                                               *)
(*   - a DataFrame is [columns, index, rows]: the set of column names, the  *)
(*     sequence of row labels and the sequence of rows (functions from the  *)
(*     column names to cell values);                                        *)
(*   - a categorical cell is a string, the null cell is NaN;                *)
(*   - a numeric cell or count is a natural number, the numeric null is     *)
(*     NaNNum (numbers and strings are never compared with each other);     *)
(*   - event_time is a timestamp in ticks, TicksPerDay ticks to a calendar  *)
(*     day; a float is an IEEE 754 double [m, e] of value m * 2^e, and the  *)
(*     division and the product of floats round as the doubles do;          *)
(*   - a name the script never assigned in an execution is <<>>, a widget   *)
(*     that was never drawn has the value Unset (NaNNum for the slider).    *)
(***************************************************************************)
EXTENDS Integers, Sequences, FiniteSets, TLC

VARIABLES df, funnel_steps,
          start_date, end_date, platform, user_type, selected_col, top_n,
          df_copy, filtered_df, funnel_counts, sankey_data, sankey_fig,
          daily_events, campaign_summary, device_summary, payment_summary,
          pack_summary, col_counts, charts, error

vars == <<df, funnel_steps,
          start_date, end_date, platform, user_type, selected_col, top_n,
          df_copy, filtered_df, funnel_counts, sankey_data, sankey_fig,
          daily_events, campaign_summary, device_summary, payment_summary,
          pack_summary, col_counts, charts, error>>

-----------------------------------------------------------------------------
(* Values *)

NaN == "NaN"
NaNNum == 0 - 1
Unset == "unset"
All == "All"
NoError == "none"

TicksPerDay == 2

Min2(a, b) == IF a <= b THEN a ELSE b

(* Natural numbers of any size: the digits of base 2^15, least significant
   first, without a leading zero digit; 0 is the empty sequence. *)
Limb == 2^15

RECURSIVE BigOf(_)
BigOf(n) == IF n = 0 THEN <<>> ELSE <<n % Limb>> \o BigOf(n \div Limb)

RECURSIVE BigTrim(_)
BigTrim(a) ==
    IF Len(a) > 0 /\ a[Len(a)] = 0 THEN BigTrim(SubSeq(a, 1, Len(a) - 1)) ELSE a

Digit(a, i) == IF i \in 1..Len(a) THEN a[i] ELSE 0

RECURSIVE BigAddFrom(_, _, _, _)
BigAddFrom(a, b, i, c) ==
    IF i > Len(a) /\ i > Len(b)
    THEN (IF c = 0 THEN <<>> ELSE <<c>>)
    ELSE LET s == Digit(a, i) + Digit(b, i) + c
         IN  <<s % Limb>> \o BigAddFrom(a, b, i + 1, s \div Limb)

BigAdd(a, b) == BigAddFrom(a, b, 1, 0)

(* a * n for a digit n *)
RECURSIVE BigMulFrom(_, _, _, _)
BigMulFrom(a, n, i, c) ==
    IF i > Len(a)
    THEN (IF c = 0 THEN <<>> ELSE <<c>>)
    ELSE LET s == a[i] * n + c
         IN  <<s % Limb>> \o BigMulFrom(a, n, i + 1, s \div Limb)

(* a * n for a natural number n *)
RECURSIVE BigMul(_, _)
BigMul(a, n) ==
    IF n = 0 \/ Len(a) = 0 THEN <<>>
    ELSE IF n < Limb THEN BigMulFrom(a, n, 1, 0)
    ELSE BigAdd(BigMulFrom(a, n % Limb, 1, 0),
                BigTrim(<<0>> \o BigMul(a, n \div Limb)))

(* a * 2^k *)
BigShift(a, k) ==
    IF Len(a) = 0 THEN <<>>
    ELSE [i \in 1..(k \div 15) |-> 0] \o BigMulFrom(a, 2^(k % 15), 1, 0)

(* a \div 2^k *)
BigUnshift(a, k) ==
    LET w == k \div 15
        r == k % 15
    IN  BigTrim([i \in 1..(Len(a) - w) |->
                    (a[i + w] \div 2^r) + (Digit(a, i + w + 1) % 2^r) * 2^(15 - r)])

(* a % 2^k = 0 *)
BigLowZero(a, k) ==
    \A i \in 1..Len(a) :
        /\ i <= k \div 15 => a[i] = 0
        /\ i = k \div 15 + 1 => a[i] % 2^(k % 15) = 0

(* The binary digit of a that counts 2^k. *)
BigBit(a, k) == (Digit(a, k \div 15 + 1) \div 2^(k % 15)) % 2

RECURSIVE BitLen(_)
BitLen(n) == IF n = 0 THEN 0 ELSE 1 + BitLen(n \div 2)

(* The number of binary digits of a. *)
BigLen(a) == IF Len(a) = 0 THEN 0 ELSE 15 * (Len(a) - 1) + BitLen(a[Len(a)])

RECURSIVE BigLeqFrom(_, _, _)
BigLeqFrom(a, b, i) ==
    IF i = 0 THEN TRUE
    ELSE IF a[i] # b[i] THEN a[i] < b[i]
    ELSE BigLeqFrom(a, b, i - 1)

BigLeq(a, b) ==
    IF Len(a) # Len(b) THEN Len(a) < Len(b) ELSE BigLeqFrom(a, b, Len(a))

(* A Python float (IEEE 754 double) of value m * 2^e, kept as [m, e] with m
   of exactly Precision binary digits, or as FloatZero.  Precision is the
   number of significant binary digits a double holds. *)
Precision == 53

FloatZero == [m |-> <<>>, e |-> 0]
FloatNaN == [m |-> <<NaNNum>>, e |-> 0]

(* sum * 2^e where sum has Precision binary digits or is 2^Precision. *)
FloatCarry(sum, e) ==
    IF BigLen(sum) > Precision
    THEN [m |-> BigUnshift(sum, 1), e |-> e + 1]
    ELSE [m |-> sum, e |-> e]

(* high * 2^e rounded up when what was cut off is above one half (above) or
   is one half (half) and high is odd. *)
FloatRoundUp(high, e, above, half) ==
    FloatCarry(IF above \/ (half /\ high[1] % 2 = 1)
               THEN BigAdd(high, <<1>>) ELSE high, e)

(* m * 2^e rounded to a float, d the number of binary digits m has above
   Precision. *)
FloatRoundAt(m, e, d) ==
    IF Len(m) = 0 THEN FloatZero
    ELSE IF d <= 0 THEN [m |-> BigShift(m, 0 - d), e |-> e + d]
    ELSE FloatRoundUp(BigUnshift(m, d), e + d,
                      BigBit(m, d - 1) = 1 /\ ~BigLowZero(m, d - 1),
                      BigBit(m, d - 1) = 1 /\ BigLowZero(m, d - 1))

(* The double nearest to m * 2^e, a tie going to the even neighbour. *)
RoundFloat(m, e) == FloatRoundAt(m, e, BigLen(m) - Precision)

(* The remainders of a * 32^k by b for k = 0, ..., n. *)
RECURSIVE ShiftRems(_, _, _)
ShiftRems(a, b, n) ==
    IF n = 0 THEN <<a % b>>
    ELSE LET s == ShiftRems(a, b, n - 1) IN Append(s, (32 * s[n]) % b)

(* The digit of base 2^15 of a quotient by b that three steps of long
   division give after step k, rem the remainders of the steps. *)
QuotDigit(rem, b, k) ==
    ((32 * rem[k + 1]) \div b) * 2^10 + ((32 * rem[k + 2]) \div b) * 2^5
        + (32 * rem[k + 3]) \div b

(* a / b developed to c digits of base 2^15 after the point, then a last
   binary digit that records whether anything is left, and rounded. *)
FloatDivDigits(a, b, c, rem) ==
    RoundFloat(BigAdd(BigShift(BigTrim([i \in 1..c |-> QuotDigit(rem, b, 3 * (c - i))]
                                       \o BigOf(a \div b)), 1),
                      IF rem[3 * c + 1] = 0 THEN <<>> ELSE <<1>>),
               0 - (15 * c + 1))

FloatDivTo(a, b, c) == FloatDivDigits(a, b, c, ShiftRems(a, b, 3 * c))

(* a / b of two integers, a >= 0 and b > 0: the double nearest to the
   quotient.  The quotient is developed by long division, 5 binary digits
   at a time, to more binary digits than a double holds. *)
FloatDiv(a, b) == FloatDivTo(a, b, (Precision + 2 + BitLen(b) + 14) \div 15)

(* x * k of a float and an integer k >= 0: the double nearest to the
   product. *)
FloatMul(x, k) == RoundFloat(BigMul(x.m, k), x.e)

FloatOfInt(k) == RoundFloat(BigOf(k), 0)

(* x <= k for a float and an integer k >= 0 *)
FloatLeq(x, k) ==
    IF x.e >= 0 THEN BigLeq(BigShift(x.m, x.e), BigOf(k))
    ELSE BigLeq(x.m, BigShift(BigOf(k), 0 - x.e))

-----------------------------------------------------------------------------
(* Configuration of the script *)

FunnelSteps ==
    << "SUBSCRIPTION-CURATED-PLAN-SELECTION-LAUNCH",
       "SUBSCRIPTION-CURATED-PLAN-SELECTION-PROCEED",
       "APP-SELECTION-PAGE",
       "CHOOSE_YOUR_APP_PROCEED",
       "SUBSCRIPTION-SUMMARY-LAUNCH",
       "SUBSCRIPTION-SUMMARY-PROCEED",
       "PAYMENT-INITIATE",
       "PAYMENT",
       "BINGE-SUBSCRIPTION",
       "SUBSCRIBE-SUCCESS" >>

ConversionEvents == {"BINGE-SUBSCRIPTION", "SUBSCRIBE-SUCCESS"}

columns_to_visualize ==
    << "mp_brand", "mp_browser", "mp_carrier", "mp_city", "mp_country_code",
       "mp_manufacturer", "mp_model", "mp_os", "mp_os_version", "mp_region",
       "mp_wifi" >>

(* st.sidebar.slider("Top N values", 5, 50, 20): the least and the default
   value of the slider. *)
TopNMin == 5
TopNDefault == 20

-----------------------------------------------------------------------------
(* pandas primitives *)

Range(s) == {s[i] : i \in DOMAIN s}

(* df[c]: the column c as a sequence of cells. *)
Column(d, c) == [i \in 1..Len(d.rows) |-> d.rows[i][c]]

(* series == v, elementwise: a null cell equals nothing. *)
EqMask(s, v) == [i \in DOMAIN s |-> s[i] # NaN /\ s[i] = v]

(* series.isin(values) *)
IsinMask(s, values) == [i \in DOMAIN s |-> s[i] \in values]

(* df[mask]: the rows whose mask is true, in order, with their labels. *)
BoolIndex(d, mask) ==
    LET all == [i \in 1..Len(d.rows) |-> i]
        kept == SelectSeq(all, LAMBDA i : mask[i])
    IN  [columns |-> d.columns,
         index   |-> [k \in 1..Len(kept) |-> d.index[kept[k]]],
         rows    |-> [k \in 1..Len(kept) |-> d.rows[kept[k]]]]

(* df.shape[0] *)
NRows(d) == Len(d.rows)

(* The non-null values of a series, each once, in order of first appearance. *)
RECURSIVE Uniques(_)
Uniques(s) ==
    IF s = <<>> THEN <<>>
    ELSE LET n == Len(s)
             front == Uniques(SubSeq(s, 1, n - 1))
         IN  IF s[n] = NaN \/ s[n] \in Range(front) THEN front
             ELSE Append(front, s[n])

CountOf(s, v) == Cardinality({i \in DOMAIN s : s[i] = v})

(* Stable insertion of the entry e into a sequence sorted by descending count. *)
RECURSIVE InsertDesc(_, _)
InsertDesc(sorted, e) ==
    IF sorted = <<>> THEN <<e>>
    ELSE LET n == Len(sorted)
         IN  IF sorted[n].count >= e.count THEN Append(sorted, e)
             ELSE Append(InsertDesc(SubSeq(sorted, 1, n - 1), e), sorted[n])

(* Stable sort by descending count. *)
RECURSIVE SortDesc(_)
SortDesc(entries) ==
    IF entries = <<>> THEN <<>>
    ELSE LET n == Len(entries)
         IN  InsertDesc(SortDesc(SubSeq(entries, 1, n - 1)), entries[n])

(* series.value_counts(): nulls dropped, descending count. *)
value_counts(s) ==
    LET u == Uniques(s)
    IN  SortDesc([k \in 1..Len(u) |-> [value |-> u[k], count |-> CountOf(s, u[k])]])

(* counts.nlargest(n): the n largest, the first of equal ones kept. *)
nlargest(counts, n) ==
    LET sorted == SortDesc(counts)
    IN  SubSeq(sorted, 1, Min2(n, Len(sorted)))

(* counts.reindex(labels).reset_index(): one row per label, in label order;
   a label the counts do not have gets the numeric null. *)
reindex(counts, labels) ==
    [i \in 1..Len(labels) |->
        [event_name |-> labels[i],
         count |-> IF \E k \in DOMAIN counts : counts[k].value = labels[i]
                   THEN LET k == CHOOSE k \in DOMAIN counts :
                                     counts[k].value = labels[i]
                        IN  counts[k].count
                   ELSE NaNNum]]

(* df.groupby(c).size(): the groups are the non-null values of c, sorted by
   key, so the table is a function of the key. *)
groupby_size(d, c) ==
    LET s == Column(d, c)
    IN  [v \in Range(s) \ {NaN} |-> CountOf(s, v)]

(* df.groupby([c1, c2]).size(): a row with a null in either key is dropped. *)
groupby2_size(d, c1, c2) ==
    LET s == [i \in 1..Len(d.rows) |-> <<d.rows[i][c1], d.rows[i][c2]>>]
        keys == {k \in Range(s) : k[1] # NaN /\ k[2] # NaN}
    IN  [k \in keys |-> CountOf(s, k)]

RECURSIVE SumSeq(_)
SumSeq(s) == IF s = <<>> THEN 0 ELSE s[Len(s)] + SumSeq(SubSeq(s, 1, Len(s) - 1))

(* df.groupby(c)[num].agg(["count", "mean"]): per non-null key the number of
   non-null numbers and their mean (the numeric null when there is none). *)
groupby_count_mean(d, c, num) ==
    LET s == Column(d, c)
    IN  [v \in Range(s) \ {NaN} |->
            LET grp == BoolIndex(d, EqMask(s, v))
                vals == SelectSeq(Column(grp, num), LAMBDA x : x # NaNNum)
            IN  [count |-> Len(vals),
                 mean  |-> IF Len(vals) > 0
                           THEN FloatDiv(SumSeq(vals), Len(vals))
                           ELSE FloatNaN]]

(* labels.index(x): the position of the first occurrence, from 0. *)
ListIndex(labels, x) ==
    (CHOOSE i \in DOMAIN labels :
        labels[i] = x /\ \A j \in 1..(i - 1) : labels[j] # x) - 1

-----------------------------------------------------------------------------
(* Step 2-3: load and prepare the data *)

(* load_data(): st.cache_data hands every execution the dataset that was
   read when the process first ran the function. *)
load_data(cached) == cached

(* df_copy = df.copy() with event_time as timestamps and the derived
   event_date column: the timestamp truncated to its calendar day. *)
PrepareData(d) ==
    [columns |-> d.columns \cup {"event_date"},
     index   |-> d.index,
     rows    |-> [i \in 1..Len(d.rows) |->
                    [c \in d.columns \cup {"event_date"} |->
                        IF c = "event_date"
                        THEN d.rows[i]["event_time"] \div TicksPerDay
                        ELSE d.rows[i][c]]]]

-----------------------------------------------------------------------------
(* Step 4: helper functions *)

(* Line 44 reporting a full conversion when there is no source event. *)
conv_percent_full(src_count, tgt_count) ==
    IF src_count > 0 THEN FloatMul(FloatDiv(tgt_count, src_count), 100)
    ELSE FloatOfInt(100)

(* Line 44 with the quotient cut off at 100. *)
conv_percent_clamped(src_count, tgt_count) ==
    IF src_count > 0
    THEN FloatMul(FloatDiv(Min2(tgt_count, src_count), src_count), 100)
    ELSE FloatZero

(* (tgt_count / src_count * 100) if src_count > 0 else 0: the quotient is
   rounded to a double, then its product with 100 is. *)
conv_percent(src_count, tgt_count) ==
    IF src_count > 0 THEN FloatMul(FloatDiv(tgt_count, src_count), 100)
    ELSE FloatZero

(* Line 48 taking the source count for the volume. *)
edge_value_source(src_count, tgt_count) == src_count

(* min(src_count, tgt_count) *)
edge_value(src_count, tgt_count) == Min2(src_count, tgt_count)

(* Line 39 stopping one pair early. *)
edge_range_short(steps) == 1..(Len(steps) - 2)

(* range(len(funnel_steps) - 1), counted from 1 *)
edge_range(steps) == 1..(Len(steps) - 1)

create_sankey_data(fd, steps) ==
    [k \in edge_range(steps) |->
        LET source == steps[k]
            target == steps[k + 1]
            src_count == NRows(BoolIndex(fd, EqMask(Column(fd, "event_name"), source)))
            tgt_count == NRows(BoolIndex(fd, EqMask(Column(fd, "event_name"), target)))
        IN  [source  |-> source,
             target  |-> target,
             value   |-> edge_value(src_count, tgt_count),
             percent |-> conv_percent(src_count, tgt_count)]]

(* plot_vertical_sankey: its local sankey_data and what it hands to the
   Sankey figure (node labels, link ends as label positions, link values,
   hover percentages). *)
plot_vertical_sankey(fd, steps) ==
    LET data == create_sankey_data(fd, steps)
    IN  [sankey_data |-> data,
         label       |-> steps,
         source      |-> [k \in DOMAIN data |-> ListIndex(steps, data[k].source)],
         target      |-> [k \in DOMAIN data |-> ListIndex(steps, data[k].target)],
         value       |-> [k \in DOMAIN data |-> data[k].value],
         customdata  |-> [k \in DOMAIN data |-> data[k].percent]]

-----------------------------------------------------------------------------
(* Step 5: filters *)

RECURSIVE SeqMin(_)
SeqMin(s) ==
    IF Len(s) = 1 THEN s[1]
    ELSE Min2(s[Len(s)], SeqMin(SubSeq(s, 1, Len(s) - 1)))

RECURSIVE SeqMax(_)
SeqMax(s) ==
    IF Len(s) = 1 THEN s[1]
    ELSE LET m == SeqMax(SubSeq(s, 1, Len(s) - 1))
         IN  IF s[Len(s)] >= m THEN s[Len(s)] ELSE m

(* ["All"] + sorted(df_copy[c].dropna().unique().tolist()): the order of the
   options does not matter to the script, so they are kept as a set. *)
SelectOptions(dfc, c) == {All} \cup (Range(Column(dfc, c)) \ {NaN})

(* Line 118 with the end date left out of the range. *)
DateMaskOpenEnd(dfc, s, e) ==
    LET dates == Column(dfc, "event_date")
    IN  [i \in DOMAIN dates |-> dates[i] >= s /\ dates[i] < e]

(* (event_date >= start_date) & (event_date <= end_date) *)
DateMask(dfc, s, e) ==
    LET dates == Column(dfc, "event_date")
    IN  [i \in DOMAIN dates |-> dates[i] >= s /\ dates[i] <= e]

FilterPlatform(fd, p) ==
    IF p # All THEN BoolIndex(fd, EqMask(Column(fd, "platform"), p)) ELSE fd

FilterUserType(fd, u) ==
    IF u # All THEN BoolIndex(fd, EqMask(Column(fd, "user_type"), u)) ELSE fd

(* The filtered_df of lines 117-123. *)
FilterData(dfc, s, e, p, u) ==
    FilterUserType(FilterPlatform(BoolIndex(dfc, DateMask(dfc, s, e)), p), u)

-----------------------------------------------------------------------------
(* Step 6-7: the views *)

(* funnel_counts of lines 129-133 *)
FunnelCounts(fd, steps) ==
    LET funnel_df == BoolIndex(fd, IsinMask(Column(fd, "event_name"), Range(steps)))
    IN  reindex(value_counts(Column(funnel_df, "event_name")), steps)

(* daily_events of line 152: event_date is never null. *)
DailyEvents(fd) ==
    LET dates == Column(fd, "event_date")
    IN  [v \in Range(dates) |-> CountOf(dates, v)]

(* campaign_summary of lines 164-169 *)
CampaignSummary(fd) ==
    LET campaign_conv ==
            BoolIndex(fd, IsinMask(Column(fd, "event_name"), ConversionEvents))
    IN  groupby_size(campaign_conv, "af_campaign")

(* device_summary of lines 181-182 *)
DeviceSummary(fd) == value_counts(Column(fd, "mp_os"))

(* payment_summary of lines 189-193 *)
PaymentSummary(fd) == groupby2_size(fd, "payment_method", "payment_status")

(* pack_summary of lines 205-207 *)
PackSummary(fd) == groupby_count_mean(fd, "pack_name", "pack_price")

(* The frame the attribute explorer of line 227 counts. *)
ExplorerFrame(dfc, fd) == dfc

(* col_counts of lines 227-228 *)
ColCounts(dfc, fd, col, n) ==
    nlargest(value_counts(Column(ExplorerFrame(dfc, fd), col)), n)

(* Line 222: the explorable columns the dataset has, in list order. *)
VisibleColumns(cols) == SelectSeq(columns_to_visualize, LAMBDA c : c \in cols)

-----------------------------------------------------------------------------
(* One execution of the script, top to bottom.  ses holds the widget values
   of the session (Unset / NaNNum for a widget that has no value yet and
   takes its default).  A KeyError ends the execution where it is raised:
   what comes after is neither assigned nor drawn. *)

FreshSession ==
    [start_date |-> NaNNum, end_date |-> NaNNum, platform |-> Unset,
     user_type |-> Unset, selected_col |-> Unset, top_n |-> NaNNum]

Script(cached, steps, ses) ==
    LET d     == load_data(cached)
        dfc   == PrepareData(d)
        cols  == dfc.columns
        s     == IF ses.start_date = NaNNum
                 THEN SeqMin(Column(dfc, "event_date")) ELSE ses.start_date
        e     == IF ses.end_date = NaNNum
                 THEN SeqMax(Column(dfc, "event_date")) ELSE ses.end_date
        (* how far the execution gets *)
        okPlatform == "platform" \in cols                          \* line 112
        okFilter   == okPlatform /\ "user_type" \in cols           \* line 114
        okCampaign == okFilter /\ "af_campaign" \in cols           \* line 168
        okDevice   == okCampaign /\ "mp_os" \in cols               \* line 181
        inPayment  == okDevice /\ "payment_method" \in cols
                               /\ "payment_status" \in cols        \* line 188
        inPack     == okDevice /\ "pack_name" \in cols             \* line 203
        okPack     == okDevice /\ (inPack => "pack_price" \in cols) \* line 206
        visible    == VisibleColumns(cols)
        okExplorer == okPack /\ visible # <<>>                     \* line 227
        p     == IF ~okPlatform THEN Unset
                 ELSE IF ses.platform = Unset THEN All ELSE ses.platform
        u     == IF ~okFilter THEN Unset
                 ELSE IF ses.user_type = Unset THEN All ELSE ses.user_type
        col   == IF ~okPack THEN Unset
                 ELSE IF visible = <<>> THEN "None"
                 ELSE IF ses.selected_col = Unset THEN visible[1]
                 ELSE ses.selected_col
        n     == IF ~okPack THEN NaNNum
                 ELSE IF ses.top_n = NaNNum THEN TopNDefault ELSE ses.top_n
        fd    == IF okFilter THEN FilterData(dfc, s, e, p, u) ELSE <<>>
        fig   == plot_vertical_sankey(fd, steps)
    IN  [df_copy          |-> dfc,
         start_date       |-> s,
         end_date         |-> e,
         platform         |-> p,
         user_type        |-> u,
         selected_col     |-> col,
         top_n            |-> n,
         filtered_df      |-> fd,
         funnel_counts    |-> IF okFilter THEN FunnelCounts(fd, steps) ELSE <<>>,
         sankey_data      |-> IF okFilter THEN fig.sankey_data ELSE <<>>,
         sankey_fig       |-> IF okFilter
                              THEN [f \in DOMAIN fig \ {"sankey_data"} |-> fig[f]]
                              ELSE <<>>,
         daily_events     |-> IF okFilter THEN DailyEvents(fd) ELSE <<>>,
         campaign_summary |-> IF okCampaign THEN CampaignSummary(fd) ELSE <<>>,
         device_summary   |-> IF okDevice THEN DeviceSummary(fd) ELSE <<>>,
         payment_summary  |-> IF inPayment THEN PaymentSummary(fd) ELSE <<>>,
         pack_summary     |-> IF inPack /\ okPack THEN PackSummary(fd) ELSE <<>>,
         col_counts       |-> IF okExplorer THEN ColCounts(dfc, fd, col, n) ELSE <<>>,
         charts           |->
             (IF okFilter THEN {"funnel_fig", "sankey_fig", "daily_fig"} ELSE {})
             \cup (IF okCampaign THEN {"campaign_fig"} ELSE {})
             \cup (IF okDevice THEN {"device_fig"} ELSE {})
             \cup (IF inPayment THEN {"payment_fig"} ELSE {})
             \cup (IF inPack /\ okPack THEN {"pack_fig"} ELSE {})
             \cup (IF okExplorer THEN {"dist_fig"} ELSE {}),
         error            |->
             IF ~okPlatform THEN "KeyError: platform"
             ELSE IF ~okFilter THEN "KeyError: user_type"
             ELSE IF ~okCampaign THEN "KeyError: af_campaign"
             ELSE IF ~okDevice THEN "KeyError: mp_os"
             ELSE IF ~okPack THEN "KeyError: pack_price"
             ELSE IF ~okExplorer THEN "KeyError: None"
             ELSE NoError]

(* The state the execution r leaves behind. *)
Assign(r) ==
    /\ df_copy' = r.df_copy
    /\ start_date' = r.start_date
    /\ end_date' = r.end_date
    /\ platform' = r.platform
    /\ user_type' = r.user_type
    /\ selected_col' = r.selected_col
    /\ top_n' = r.top_n
    /\ filtered_df' = r.filtered_df
    /\ funnel_counts' = r.funnel_counts
    /\ sankey_data' = r.sankey_data
    /\ sankey_fig' = r.sankey_fig
    /\ daily_events' = r.daily_events
    /\ campaign_summary' = r.campaign_summary
    /\ device_summary' = r.device_summary
    /\ payment_summary' = r.payment_summary
    /\ pack_summary' = r.pack_summary
    /\ col_counts' = r.col_counts
    /\ charts' = r.charts
    /\ error' = r.error

Session ==
    [start_date |-> start_date, end_date |-> end_date, platform |-> platform,
     user_type |-> user_type, selected_col |-> selected_col, top_n |-> top_n]

(* A re-execution that filters the cached frame itself, so that the rows a
   filter dropped are gone for the executions that follow. *)
RerunInPlace(ses) ==
    LET r == Script(df, funnel_steps, ses)
    IN  /\ Assign(r)
        /\ df' = (IF "funnel_fig" \notin r.charts THEN df
                  ELSE [df EXCEPT !.index = r.filtered_df.index,
                                  !.rows = [k \in 1..Len(r.filtered_df.rows) |->
                                              [c \in df.columns |-> r.filtered_df.rows[k][c]]]])
        /\ UNCHANGED funnel_steps

(* A widget changed: Streamlit executes the script again with the new
   widget values; the cached dataset and the configuration stay. *)
Rerun(ses) ==
    /\ Assign(Script(df, funnel_steps, ses))
    /\ UNCHANGED <<df, funnel_steps>>

-----------------------------------------------------------------------------
(* The widget interactions *)

MaxDate == 1
Dates == 0..MaxDate

(* The positions the slider is moved to. *)
TopNChoices == {TopNMin, TopNDefault}

(* line 108: st.date_input("Start Date") *)
ChangeStartDate ==
    \E d \in Dates \ {start_date} :
        Rerun([Session EXCEPT !.start_date = d])

(* line 110: st.date_input("End Date") *)
ChangeEndDate ==
    \E d \in Dates \ {end_date} :
        Rerun([Session EXCEPT !.end_date = d])

(* line 112: st.selectbox("Platform") *)
ChangePlatform ==
    /\ platform # Unset
    /\ \E p \in SelectOptions(df_copy, "platform") \ {platform} :
          Rerun([Session EXCEPT !.platform = p])

(* line 114: st.selectbox("User Type") *)
ChangeUserType ==
    /\ user_type # Unset
    /\ \E u \in SelectOptions(df_copy, "user_type") \ {user_type} :
          Rerun([Session EXCEPT !.user_type = u])

(* line 223: st.sidebar.selectbox("Select Column") *)
ChangeColumn ==
    /\ selected_col \notin {Unset, "None"}
    /\ \E c \in Range(VisibleColumns(df_copy.columns)) \ {selected_col} :
          Rerun([Session EXCEPT !.selected_col = c])

(* line 224: st.sidebar.slider("Top N values", 5, 50, 20) *)
ChangeTopN ==
    /\ top_n # NaNNum
    /\ \E n \in TopNChoices \ {top_n} :
          Rerun([Session EXCEPT !.top_n = n])

Next ==
    \/ ChangeStartDate
    \/ ChangeEndDate
    \/ ChangePlatform
    \/ ChangeUserType
    \/ ChangeColumn
    \/ ChangeTopN

-----------------------------------------------------------------------------
(* Datasets *)

AllColumns ==
    {"event_time", "event_name", "platform", "user_type", "af_campaign",
     "mp_os", "mp_brand", "payment_method", "payment_status", "pack_name",
     "pack_price"}

OptionalColumns ==
    {"platform", "user_type", "af_campaign", "mp_os", "payment_method",
     "payment_status", "pack_name", "pack_price"}

(* read_excel: a frame of the given columns with the default labels 0, 1, ... *)
Frame(cols, rows) ==
    [columns |-> cols,
     index   |-> [i \in 1..Len(rows) |-> i - 1],
     rows    |-> [i \in 1..Len(rows) |-> [c \in cols |-> rows[i][c]]]]

(* An event: timestamp, name, platform, user type, campaign, OS, brand and
   payment <<method, status>>, pack <<name, price>>. *)
Event(t, name, p, u, camp, os, brand, pay, pack) ==
    [c \in AllColumns |->
        CASE c = "event_time"     -> t
          [] c = "event_name"     -> name
          [] c = "platform"       -> p
          [] c = "user_type"      -> u
          [] c = "af_campaign"    -> camp
          [] c = "mp_os"          -> os
          [] c = "mp_brand"       -> brand
          [] c = "payment_method" -> pay[1]
          [] c = "payment_status" -> pay[2]
          [] c = "pack_name"      -> pack[1]
          [] c = "pack_price"     -> pack[2]]

NoPayment == <<NaN, NaN>>
NoPack == <<NaN, NaNNum>>

(* A sample of the clickstream sheet. *)
SampleLog ==
    << Event(0, FunnelSteps[1], "android", "free", NaN, "Android", "Samsung",
             NoPayment, NoPack),
       Event(1, FunnelSteps[2], "web", "paid", "diwali", NaN, NaN,
             NoPayment, NoPack),
       Event(1, FunnelSteps[1], "android", NaN, "summer", "iOS", "Apple",
             <<"card", NaN>>, <<"gold", NaNNum>>),
       Event(2, FunnelSteps[9], NaN, "free", "summer", "iOS", "Apple",
             <<"card", "success">>, <<"gold", 10>>),
       Event(3, FunnelSteps[10], "web", "free", NaN, "Android", "Samsung",
             <<"upi", "failed">>, <<"silver", 5>>),
       Event(3, NaN, "android", "paid", "summer", "Android", "Apple",
             <<"card", "success">>, <<"gold", 5>>) >>

MaxRows == 3

(* The subsequences of a log that have 1..n rows. *)
SubLogs(log, n) ==
    LET picks == {S \in SUBSET (1..Len(log)) : Cardinality(S) \in 1..n}
    IN  {SelectSeq([i \in 1..Len(log) |-> i], LAMBDA i : i \in S) : S \in picks}

SampleDatasets ==
    {Frame(AllColumns, [k \in 1..Len(ix) |-> SampleLog[ix[k]]]) :
        ix \in SubLogs(SampleLog, MaxRows)}

(* Every combination of what the filters look at, one event to a dataset:
   the event at the first or the last tick of a day. *)
Ticks ==
    UNION {{d * TicksPerDay, (d + 1) * TicksPerDay - 1} : d \in Dates}

FilterEvents ==
    {Event(t, FunnelSteps[1], p, u, NaN, "Android", "Samsung", NoPayment, NoPack) :
        t \in Ticks, p \in {NaN, "android", "web"}, u \in {NaN, "free", "paid"}}

FilterDatasets == {Frame(AllColumns, <<ev>>) : ev \in FilterEvents}

-----------------------------------------------------------------------------
(* The page *)

(* The state after the page is opened: the first execution of the script. *)
InitOn(data, steps) ==
    /\ df = data
    /\ funnel_steps = steps
    /\ LET r == Script(data, steps, FreshSession)
       IN  /\ df_copy = r.df_copy
           /\ start_date = r.start_date
           /\ end_date = r.end_date
           /\ platform = r.platform
           /\ user_type = r.user_type
           /\ selected_col = r.selected_col
           /\ top_n = r.top_n
           /\ filtered_df = r.filtered_df
           /\ funnel_counts = r.funnel_counts
           /\ sankey_data = r.sankey_data
           /\ sankey_fig = r.sankey_fig
           /\ daily_events = r.daily_events
           /\ campaign_summary = r.campaign_summary
           /\ device_summary = r.device_summary
           /\ payment_summary = r.payment_summary
           /\ pack_summary = r.pack_summary
           /\ col_counts = r.col_counts
           /\ charts = r.charts
           /\ error = r.error

Init == \E data \in SampleDatasets \cup FilterDatasets : InitOn(data, FunnelSteps)

Spec == Init /\ [][Next]_vars

(* The funnel configuration as an input: step lists of every length up to
   MaxSteps over the first two steps, and the configured list. *)
MaxSteps == 3

StepLists ==
    UNION {[1..n -> {FunnelSteps[1], FunnelSteps[2]}] : n \in 0..MaxSteps}
    \cup {FunnelSteps}

InitSteps ==
    \E steps \in StepLists :
        InitOn(Frame(AllColumns, SubSeq(SampleLog, 1, MaxRows)), steps)

SpecSteps == InitSteps /\ [][Next]_vars

(* Datasets given by how many events each of the first three steps has. *)
MaxCount == 2

Repeat(ev, n) == [i \in 1..n |-> ev]

StepEvent(k) ==
    Event(0, FunnelSteps[k], "android", "free", NaN, "Android", "Samsung",
          NoPayment, NoPack)

CountLog(c1, c2, c3) ==
    Repeat(StepEvent(1), c1) \o Repeat(StepEvent(2), c2) \o Repeat(StepEvent(3), c3)

CountDatasets ==
    {Frame(AllColumns, CountLog(c[1], c[2], c[3])) :
        c \in ((0..MaxCount) \X (0..MaxCount) \X (0..MaxCount)) \ {<<0, 0, 0>>}}

ScenarioDatasets ==
    {Frame(AllColumns, CountLog(10, 4, 0)),
     Frame(AllColumns, CountLog(0, 5, 0)),
     Frame(AllColumns, CountLog(10, 6, 9)),
     Frame(AllColumns, CountLog(5, 11, 0))}

InitCounts ==
    \E data \in CountDatasets \cup ScenarioDatasets : InitOn(data, FunnelSteps)

SpecCounts == InitCounts /\ [][Next]_vars

(* Datasets that lack up to MaxMissing of the optional columns. *)
MaxMissing == 2

Schemas ==
    {AllColumns \ M : M \in {X \in SUBSET OptionalColumns : Cardinality(X) <= MaxMissing}}

InitColumns ==
    \E cols \in Schemas : InitOn(Frame(cols, SubSeq(SampleLog, 1, MaxRows)), FunnelSteps)

SpecColumns == InitColumns /\ [][Next]_vars

-----------------------------------------------------------------------------
(* Properties *)

(* The latest execution got as far as the filter of lines 117-123. *)
Filtered == "funnel_fig" \in charts

(* What the filters select, said of one event. *)
Selected(ev) ==
    /\ start_date <= ev["event_date"]
    /\ ev["event_date"] <= end_date
    /\ (platform = All \/ ev["platform"] = platform)
    /\ (user_type = All \/ ev["user_type"] = user_type)

(* The number of events of the filtered view that have the given name. *)
NameCount(name) ==
    Cardinality({i \in 1..Len(filtered_df.rows) :
                    filtered_df.rows[i]["event_name"] = name})

(* C1: the filtered view holds exactly the events of the dataset whose date
   lies in [start_date, end_date] and that match the platform and user type
   selections ("All" selecting everything), each once and unchanged; it is
   empty when start_date > end_date. *)
ThmC1 ==
    Filtered =>
        LET keep == {i \in 1..Len(df_copy.rows) : Selected(df_copy.rows[i])}
        IN  /\ Len(filtered_df.rows) = Cardinality(keep)
            /\ Len(filtered_df.index) = Cardinality(keep)
            /\ Range(filtered_df.index) = {df_copy.index[i] : i \in keep}
            /\ \A k \in 1..Len(filtered_df.rows) :
                  filtered_df.rows[k] = df_copy.rows[filtered_df.index[k] + 1]
            /\ (start_date > end_date => Len(filtered_df.rows) = 0)

(* C1 witness: both selections are set and the view keeps one event, drops
   one for its date and drops one that is in range for its platform. *)
WitC1 ==
    /\ Filtered
    /\ platform # All
    /\ user_type # All
    /\ Len(filtered_df.rows) > 0
    /\ \E i \in 1..Len(df_copy.rows) : df_copy.rows[i]["event_date"] > end_date
    /\ \E i \in 1..Len(df_copy.rows) :
          /\ df_copy.rows[i]["event_date"] \in start_date..end_date
          /\ df_copy.rows[i]["platform"] \notin {NaN, platform}

(* C2: create_sankey_data returns max(n - 1, 0) edges for n steps, the i-th
   from step i to step i + 1, and no error for n = 0 or n = 1. *)
ThmC2 ==
    Filtered =>
        LET n == Len(funnel_steps)
        IN  /\ Len(sankey_data) = (IF n >= 1 THEN n - 1 ELSE 0)
            /\ \A i \in 1..(n - 1) :
                  /\ sankey_data[i].source = funnel_steps[i]
                  /\ sankey_data[i].target = funnel_steps[i + 1]
            /\ (n <= 1 => error = NoError)

(* C2 witness: with a platform selected, the script ran to its end on an
   empty step list. *)
WitC2 ==
    /\ Filtered
    /\ platform # All
    /\ Len(funnel_steps) = 0
    /\ Len(sankey_data) = 0
    /\ error = NoError

(* C3: the volume of every edge is the smaller of the numbers of filtered
   events named as its source and as its target, so 0 when either step has
   no event; events of other names or of no name do not count. *)
ThmC3 ==
    Filtered =>
        \A k \in DOMAIN sankey_data :
            LET e == sankey_data[k]
                c_src == NameCount(e.source)
                c_tgt == NameCount(e.target)
            IN  /\ e.value <= c_src
                /\ e.value <= c_tgt
                /\ e.value \in {c_src, c_tgt}
                /\ (c_src = 0 \/ c_tgt = 0 => e.value = 0)

(* C3 witness: an edge with a positive volume while the filtered view also
   holds an event without a name. *)
WitC3 ==
    /\ Filtered
    /\ \E k \in DOMAIN sankey_data : sankey_data[k].value > 0
    /\ \E i \in 1..Len(filtered_df.rows) : filtered_df.rows[i]["event_name"] = NaN

(* The float x is the exact quotient n / d up to the two roundings of a
   division and a product of doubles: |x - n/d| <= (n/d) / 2^(Precision - 2). *)
WithinRounding(x, n, d) ==
    LET up == IF x.e >= 0 THEN x.e ELSE 0
        down == IF x.e >= 0 THEN 0 ELSE 0 - x.e
        A == BigShift(BigMul(x.m, d), up)
        B == BigShift(BigOf(n), down)
        t == Precision - 2
    IN  /\ BigLeq(BigShift(A, t), BigAdd(BigShift(B, t), B))
        /\ BigLeq(BigShift(B, t), BigAdd(BigShift(A, t), B))

(* C4: conversion_percent is the float tgt_count / src_count * 100 when
   src_count > 0, that is the exact quotient up to the rounding of doubles
   and the exact percentage where the quotient of the counts is a double
   (the source count a power of two), and exactly 0 when src_count = 0; it
   is not clamped: the counts 10, 6, 9 give 60 and 150.  The counts 5, 11
   give 220.00000000000003, the double 220 + 2^-45, as 11 / 5 is rounded
   before it is multiplied. *)
ThmC4 ==
    Filtered =>
        /\ \A k \in DOMAIN sankey_data :
              LET e == sankey_data[k]
                  c_src == NameCount(e.source)
                  c_tgt == NameCount(e.target)
              IN  /\ c_src > 0 => WithinRounding(e.percent, c_tgt * 100, c_src)
                  /\ c_src \in {1, 2, 4} /\ (c_tgt * 100) % c_src = 0
                        => e.percent = FloatOfInt((c_tgt * 100) \div c_src)
                  /\ c_src = 0 => e.percent = FloatZero
        /\ (/\ Len(funnel_steps) >= 3
            /\ NameCount(funnel_steps[1]) = 10
            /\ NameCount(funnel_steps[2]) = 6
            /\ NameCount(funnel_steps[3]) = 9)
           => /\ sankey_data[1].percent = FloatOfInt(60)
              /\ sankey_data[2].percent = FloatOfInt(150)
        /\ (/\ Len(funnel_steps) >= 2
            /\ NameCount(funnel_steps[1]) = 5
            /\ NameCount(funnel_steps[2]) = 11)
           => sankey_data[1].percent = [m |-> <<1, 0, 0, 220>>, e |-> 0 - 45]

(* C4 witness: the edges of the counts 10, 6, 9, in a view filtered by user
   type. *)
WitC4 ==
    /\ Filtered
    /\ user_type # All
    /\ Len(sankey_data) >= 2
    /\ NameCount(funnel_steps[1]) = 10
    /\ sankey_data[1].percent = FloatOfInt(60)
    /\ sankey_data[2].percent = FloatOfInt(150)

(* C5 as claimed: every edge has a volume that is an integer >= 0 and a
   conversion_percent within [0, 100]. *)
CexC5 ==
    Filtered =>
        \A k \in DOMAIN sankey_data :
            /\ sankey_data[k].value \in Nat
            /\ sankey_data[k].percent # FloatNaN
            /\ FloatLeq(sankey_data[k].percent, 100)

(* C5 amended: every edge has a volume that is an integer >= 0 and a
   conversion_percent >= 0, which is 0 when the source count is 0, at most
   100 when the target count does not exceed the source count, and above
   100 when it does and the source count is positive. *)
ThmC5 ==
    Filtered =>
        \A k \in DOMAIN sankey_data :
            LET e == sankey_data[k]
                c_src == NameCount(e.source)
                c_tgt == NameCount(e.target)
            IN  /\ e.value \in Nat
                /\ e.percent # FloatNaN
                /\ (c_src = 0 => e.percent = FloatZero)
                /\ (c_tgt <= c_src => FloatLeq(e.percent, 100))
                /\ (c_src > 0 /\ c_tgt > c_src => ~FloatLeq(e.percent, 100))

(* C5 witness: an edge whose target step has more events than its source
   step, next to an edge whose source step has no event, in a view filtered
   by platform. *)
WitC5 ==
    /\ Filtered
    /\ platform # All
    /\ \E k \in DOMAIN sankey_data :
          /\ NameCount(sankey_data[k].source) > 0
          /\ NameCount(sankey_data[k].target) > NameCount(sankey_data[k].source)
    /\ \E k \in DOMAIN sankey_data : NameCount(sankey_data[k].source) = 0

(* C6 as claimed: the top-N table counts the events of the filtered view:
   each count is the number of filtered events that carry the value, there
   are min(N, distinct values) rows, in descending order of count. *)
CexC6 ==
    "dist_fig" \in charts =>
        LET col == Column(filtered_df, selected_col)
        IN  /\ \A k \in DOMAIN col_counts :
                  col_counts[k].count = CountOf(col, col_counts[k].value)
            /\ Len(col_counts) = Min2(top_n, Cardinality(Range(col) \ {NaN}))
            /\ \A k \in 1..(Len(col_counts) - 1) :
                  col_counts[k].count >= col_counts[k + 1].count

(* C7 as claimed: the funnel bar table has one row per funnel step, in
   order, with the number of filtered events of that name, 0 when none. *)
CexC7 ==
    Filtered =>
        /\ Len(funnel_counts) = Len(funnel_steps)
        /\ \A i \in 1..Len(funnel_steps) :
              /\ funnel_counts[i].event_name = funnel_steps[i]
              /\ funnel_counts[i].count = NameCount(funnel_steps[i])

(* What each chart reads of the optional columns. *)
ChartNeeds ==
    [funnel_fig   |-> {},
     sankey_fig   |-> {},
     daily_fig    |-> {},
     campaign_fig |-> {"af_campaign"},
     device_fig   |-> {"mp_os"},
     payment_fig  |-> {"payment_method", "payment_status"},
     pack_fig     |-> {"pack_name", "pack_price"},
     dist_fig     |-> {}]

(* C8 as claimed: whatever optional columns the dataset lacks, the execution
   ends without an error, the charts that need a lacking column are skipped
   and every other chart is drawn. *)
CexC8 ==
    /\ error = NoError
    /\ \A ch \in DOMAIN ChartNeeds :
          ch \in charts <=> ChartNeeds[ch] \subseteq df.columns

(* C9 as claimed: no group-count view has a group for the null value or
   counts an event with a null key, and a view whose grouping column is null
   in every filtered event is empty. *)
CexC9 ==
    LET AllNull(c) ==
            \A i \in 1..Len(filtered_df.rows) : filtered_df.rows[i][c] = NaN
    IN  /\ "campaign_fig" \in charts =>
              /\ NaN \notin DOMAIN campaign_summary
              /\ (AllNull("af_campaign") => DOMAIN campaign_summary = {})
        /\ "device_fig" \in charts =>
              /\ \A k \in DOMAIN device_summary : device_summary[k].value # NaN
              /\ (AllNull("mp_os") => Len(device_summary) = 0)
        /\ "payment_fig" \in charts =>
              /\ \A key \in DOMAIN payment_summary : key[1] # NaN /\ key[2] # NaN
              /\ (AllNull("payment_method") \/ AllNull("payment_status")
                    => DOMAIN payment_summary = {})
        /\ "dist_fig" \in charts =>
              /\ \A k \in DOMAIN col_counts : col_counts[k].value # NaN
              /\ (AllNull(selected_col) => Len(col_counts) = 0)

(* What one execution with the present widget values computes from the
   dataset as it was loaded. *)
FreshView ==
    SelectSeq(PrepareData(df).rows, Selected)

FreshEdges ==
    [k \in 1..(Len(funnel_steps) - 1) |->
        LET Count(name) ==
                Cardinality({i \in 1..Len(FreshView) : FreshView[i]["event_name"] = name})
            c_src == Count(funnel_steps[k])
            c_tgt == Count(funnel_steps[k + 1])
        IN  [source  |-> funnel_steps[k],
             target  |-> funnel_steps[k + 1],
             value   |-> IF c_src <= c_tgt THEN c_src ELSE c_tgt,
             percent |-> IF c_src > 0 THEN FloatMul(FloatDiv(c_tgt, c_src), 100)
                         ELSE FloatZero]]

(* C10: after any sequence of widget changes the filtered view and the edges
   are those one execution with the latest widget values computes from the
   loaded dataset, and no execution changes the cached dataset. *)
ThmC10 ==
    /\ [](Filtered =>
            /\ df_copy = PrepareData(df)
            /\ filtered_df.rows = FreshView
            /\ sankey_data = FreshEdges)
    /\ [][df' = df]_vars

(* C10 witness: the start date, the platform and the user type have all been
   changed and the view holds some of the events, not all. *)
WitC10 ==
    /\ Filtered
    /\ start_date > SeqMin(Column(df_copy, "event_date"))
    /\ platform # All
    /\ user_type # All
    /\ Len(filtered_df.rows) > 0
    /\ Len(filtered_df.rows) < Len(df_copy.rows)

====
